---- MODULE Spec2Model ----
(***************************************************************************)
(* Model of claude-agent (src/src/main.rs): the entry point, the Anthropic *)
(* backend's invoke and the interactive conversation driver.               *)
(*                                                                         *)
(* Strings are sequences of one-character strings, so that trimming, case  *)
(* folding and emptiness are computed rather than assumed.  A u32 is a     *)
(* pair <<hi, lo>> of 16-bit halves (value hi * 2^16 + lo), so the running *)
(* totals keep their 32-bit width.  Dollar amounts are carried in exact    *)
(* micro-dollars as a wide number <<hi, lo>> with lo < 2^16 (value         *)
(* hi * 2^16 + lo); the f64 rounding of the code is not modelled.          *)
(***************************************************************************)
EXTENDS Integers, Sequences, FiniteSets, TLC

\* ------------------------------------------------------------------ bounds
\* Number of turns (user messages sent to the backend) explored per session.
MaxTurns == 2

\* ------------------------------------------------------------- u32 numbers
Half == 65536

U32(hi, lo) == <<hi, lo>>

Zero32 == U32(0, 0)

Max32 == U32(Half - 1, Half - 1)

\* a <= b on u32 values
Leq32(a, b) == \/ a[1] < b[1]
               \/ a[1] = b[1] /\ a[2] <= b[2]

\* a + b does not fit in 32 bits
Overflows32(a, b) == a[1] + b[1] + ((a[2] + b[2]) \div Half) >= Half

\* a + b modulo 2^32
WrappingAdd32(a, b) ==
    U32((a[1] + b[1] + ((a[2] + b[2]) \div Half)) % Half, (a[2] + b[2]) % Half)

\* ------------------------------------------------------------ wide numbers
Wide(hi, lo) == <<hi + (lo \div Half), lo % Half>>

WideAdd(a, b) == Wide(a[1] + b[1], a[2] + b[2])

WideScale(k, a) == Wide(k * a[1], k * a[2])

\* ------------------------------------------------------------------ strings
\* str::trim strips the characters with the White_Space property; these are
\* the ones that occur in the modelled input lines.
Whitespace == {" ", "\t", "\n", "\r"}

UpperLetters == <<"A", "B", "C", "D", "E", "F", "G", "H", "I", "J", "K", "L", "M",
                  "N", "O", "P", "Q", "R", "S", "T", "U", "V", "W", "X", "Y", "Z">>

LowerLetters == <<"a", "b", "c", "d", "e", "f", "g", "h", "i", "j", "k", "l", "m",
                  "n", "o", "p", "q", "r", "s", "t", "u", "v", "w", "x", "y", "z">>

\* u8::to_ascii_lowercase, which eq_ignore_ascii_case applies to both sides
ToAsciiLower(c) ==
    IF \E k \in 1..26 : UpperLetters[k] = c
    THEN LowerLetters[CHOOSE k \in 1..26 : UpperLetters[k] = c]
    ELSE c

RECURSIVE TrimStart(_)
TrimStart(s) ==
    IF s = <<>> THEN <<>>
    ELSE IF Head(s) \in Whitespace THEN TrimStart(Tail(s))
    ELSE s

RECURSIVE TrimEnd(_)
TrimEnd(s) ==
    IF s = <<>> THEN <<>>
    ELSE IF s[Len(s)] \in Whitespace THEN TrimEnd(SubSeq(s, 1, Len(s) - 1))
    ELSE s

\* trim left out
Trim_None(s) == s

\* str::trim
Trim(s) == TrimEnd(TrimStart(s))

\* the emptiness test left out
IsEmpty_Never(s) == FALSE

\* str::is_empty
IsEmpty(s) == Len(s) = 0

\* case-sensitive comparison
EqIgnoreAsciiCase_Exact(a, b) == a = b

\* str::eq_ignore_ascii_case
EqIgnoreAsciiCase(a, b) ==
    /\ Len(a) = Len(b)
    /\ \A k \in 1..Len(a) : ToAsciiLower(a[k]) = ToAsciiLower(b[k])

EXIT == <<"e", "x", "i", "t">>

QUIT == <<"q", "u", "i", "t">>

\* the loop's break condition
IsControlCommand(text) ==
    EqIgnoreAsciiCase(text, EXIT) \/ EqIgnoreAsciiCase(text, QUIT)

USER == "user"

ASSISTANT == "assistant"

\* struct Message
Message(role, content) == [role |-> role, content |-> content]

\* struct LLMRequest
LLMRequest(system_prompt, msgs) == [system_prompt |-> system_prompt, messages |-> msgs]

\* struct LLMResponse
LLMResponse(content, input_tokens, output_tokens) ==
    [content |-> content, input_tokens |-> input_tokens, output_tokens |-> output_tokens]

SystemPrompt == "You are a helpful AI assistant."

None == [some |-> FALSE]

Some(v) == [some |-> TRUE, value |-> v]

\* ------------------------------------------------------------ environment
\* What read_line can deliver: a line with its terminator, end of input
\* (Ok(0), the buffer stays empty) or an I/O error.
InputLines ==
    { <<"\n">>,
      <<" ", "\t", "\n">>,
      <<"e", "x", "i", "t", "\n">>,
      <<" ", "E", "x", "I", "T", " ", "\r", "\n">>,
      <<"Q", "U", "I", "T", "\n">>,
      <<"q", "u", "i", "t">>,
      <<"\t", "q", "U", "i", "T", "\n">>,
      <<"e", "x", "i", "t", " ", "n", "o", "w", "\n">>,
      <<" ", "H", "i", " ", "\n">> }

ReadResults ==
    { [kind |-> "line", text |-> l] : l \in InputLines }
        \cup { [kind |-> "eof"], [kind |-> "error"] }

\* Token counts a response's usage can carry (u32).
TokenCounts == { U32(0, 10), Max32 }

\* content arrays of a 2xx body: the text fields of its blocks
ContentArrays == { <<>>, << <<"O", "k">> >>, << <<"O", "k">>, <<"n", "o">> >> }

\* What the HTTP exchange of one invocation can produce.
HttpOutcomes ==
    { [kind |-> "transport_error"],
      [kind |-> "status", success |-> FALSE, status |-> "500 Internal Server Error",
       body_readable |-> TRUE, body |-> "overloaded"],
      [kind |-> "status", success |-> FALSE, status |-> "401 Unauthorized",
       body_readable |-> FALSE],
      [kind |-> "status", success |-> TRUE, parses |-> FALSE] }
        \cup { [kind |-> "status", success |-> TRUE, parses |-> TRUE,
                content |-> c, usage |-> [input_tokens |-> i, output_tokens |-> o]]
               : c \in ContentArrays, i \in TokenCounts, o \in TokenCounts }

\* ---------------------------------------------------------------- backend
Ok(v) == [ok |-> TRUE, value |-> v]

Err(e) == [ok |-> FALSE, error |-> e]

\* A piece of user-visible text: literal text, or a run of characters.
Lit(text) == [lit |-> text, chars |-> <<>>]

Chars(c) == [lit |-> "", chars |-> c]

\* the error message of a non-2xx status
StatusError(http) ==
    <<Lit("API request failed with status "), Lit(http.status), Lit(": "),
      Lit(IF http.body_readable THEN http.body ELSE "Unknown error")>>

\* an empty content array treated as a malformed response
invoke_EmptyIsError(self, request, http) ==
    IF http.kind = "transport_error"
    THEN Err(<<Lit("Failed to send request to Claude API")>>)
    ELSE IF ~http.success
    THEN Err(StatusError(http))
    ELSE IF ~http.parses \/ http.content = <<>>
    THEN Err(<<Lit("Failed to parse non-streaming response")>>)
    ELSE Ok(LLMResponse(Head(http.content),
                        http.usage.input_tokens,
                        http.usage.output_tokens))

\* the status error carrying the request's key header
invoke_LeaksKey(self, request, http) ==
    IF http.kind = "transport_error"
    THEN Err(<<Lit("Failed to send request to Claude API")>>)
    ELSE IF ~http.success
    THEN Err(StatusError(http) \o <<Lit(" x-api-key: "), Chars(self.api_key)>>)
    ELSE IF ~http.parses
    THEN Err(<<Lit("Failed to parse non-streaming response")>>)
    ELSE Ok(LLMResponse(IF http.content = <<>> THEN <<>> ELSE Head(http.content),
                        http.usage.input_tokens,
                        http.usage.output_tokens))

\* a malformed 2xx body taken for an empty reply with no usage
invoke_MalformedIsEmpty(self, request, http) ==
    IF http.kind = "transport_error"
    THEN Err(<<Lit("Failed to send request to Claude API")>>)
    ELSE IF ~http.success
    THEN Err(StatusError(http))
    ELSE IF ~http.parses
    THEN Ok(LLMResponse(<<>>, Zero32, Zero32))
    ELSE Ok(LLMResponse(IF http.content = <<>> THEN <<>> ELSE Head(http.content),
                        http.usage.input_tokens,
                        http.usage.output_tokens))

\* ClaudeProvider::invoke, given what the single HTTP exchange produced
invoke(self, request, http) ==
    IF http.kind = "transport_error"
    THEN Err(<<Lit("Failed to send request to Claude API")>>)
    ELSE IF ~http.success
    THEN Err(StatusError(http))
    ELSE IF ~http.parses
    THEN Err(<<Lit("Failed to parse non-streaming response")>>)
    ELSE Ok(LLMResponse(IF http.content = <<>> THEN <<>> ELSE Head(http.content),
                        http.usage.input_tokens,
                        http.usage.output_tokens))

\* What reading the key file can give: its content, or an I/O error.
KeyFilePath == "$HOME/.api/anthropic1"

KeyFiles ==
    { [readable |-> TRUE, content |-> <<"s", "k", "-", "A", "\n">>],
      [readable |-> TRUE, content |-> <<" ", "s", "k", "-", "B">>],
      [readable |-> FALSE, io_error |-> "No such file or directory (os error 2)"] }

\* an unreadable key file taken for an empty key
ProviderNew_DefaultKey(key_file, client_builds) ==
    IF ~client_builds
    THEN Err(<<Lit("builder error")>>)
    ELSE Ok([api_key |-> IF key_file.readable THEN Trim(key_file.content) ELSE <<>>])

\* ClaudeProvider::new, given what the key file read and the client build gave
ProviderNew(key_file, client_builds) ==
    IF ~key_file.readable
    THEN Err(<<Lit("Failed to read API key from "), Lit(KeyFilePath), Lit(key_file.io_error)>>)
    ELSE IF ~client_builds
    THEN Err(<<Lit("builder error")>>)
    ELSE Ok([api_key |-> Trim(key_file.content)])

\* ----------------------------------------------------------------- state
VARIABLES
    args,                 \* Args::parse(): [message, interactive]
    overflow_checks,      \* build profile: u32 += panics (TRUE) or wraps (FALSE)
    pc,                   \* "Start", "Dispatch", "Idle", "InFlight", "Terminated",
                          \* "SingleInFlight", "Exited", "Panicked"
    exit_code,            \* None until the process ends
    construction,         \* what the key file read and the client build gave
    provider,             \* the ClaudeProvider behind `llm`, None until built
    stderr,               \* the text of the latest error written to the error stream
    messages,             \* the transcript (interactive_mode's `messages`)
    total_input_tokens,
    total_output_tokens,
    read,                 \* what the latest read_line delivered
    request,              \* the LLMRequest handed to invoke, None when none
    turn_total_cost,      \* micro-dollars, of the latest accounting line
    session_total_cost,   \* micro-dollars, of the latest accounting line
    accounting_lines,     \* accounting lines printed
    replies_printed,      \* reply lines printed
    summaries,            \* session summaries printed
    summary,              \* totals shown by the latest session summary
    errors_reported,      \* lines written to the error stream
    invocations,          \* calls of llm.invoke
    http_sends,           \* HTTP requests sent by invoke
    \* history, for stating properties
    turns,                \* turns begun (user messages pushed)
    pre_turn,             \* transcript and totals when the latest turn began
    last_outcome,         \* "none", "ok" or "failed": how the latest turn ended
    last_http,            \* what the HTTP exchange of the latest invocation produced
    last_response,        \* the LLMResponse of the latest successful invocation
    replies,              \* contents of the successful invocations, in order
    sum_input_tokens,     \* exact sum of their input_tokens (wide)
    sum_output_tokens,    \* exact sum of their output_tokens (wide)
    concluded             \* the transcript as the latest concluded turn left it

vars == <<args, overflow_checks, pc, exit_code, construction, provider, stderr, messages, total_input_tokens,
          total_output_tokens, read, request, turn_total_cost, session_total_cost,
          accounting_lines, replies_printed, summaries, summary, errors_reported,
          invocations, http_sends, turns, pre_turn, last_outcome, last_http,
          last_response, replies, sum_input_tokens, sum_output_tokens, concluded>>

driver == <<messages, total_input_tokens, total_output_tokens>>

output == <<turn_total_cost, session_total_cost, accounting_lines, replies_printed,
            summaries, summary, errors_reported, stderr>>

backend == <<construction, provider>>

history == <<turns, pre_turn, last_outcome, last_http, last_response, replies,
             concluded>>

sums == <<sum_input_tokens, sum_output_tokens>>

\* struct Args as main receives it.  Both values of `interactive` are kept, as
\* main branches on the field; the flag as declared (a switch whose default is
\* true) leaves it true on every command line.
ArgsValues ==
    { [message |-> m, interactive |-> i] :
        m \in {None, Some(<<"H", "i">>)}, i \in BOOLEAN }

Init ==
    /\ args \in ArgsValues
    /\ overflow_checks \in BOOLEAN
    /\ pc = "Start"
    /\ exit_code = None
    /\ construction = None
    /\ provider = None
    /\ stderr = None
    /\ messages = <<>>
    /\ total_input_tokens = Zero32
    /\ total_output_tokens = Zero32
    /\ read = [kind |-> "none"]
    /\ request = None
    /\ turn_total_cost = Wide(0, 0)
    /\ session_total_cost = Wide(0, 0)
    /\ accounting_lines = 0
    /\ replies_printed = 0
    /\ summaries = 0
    /\ summary = None
    /\ errors_reported = 0
    /\ invocations = 0
    /\ http_sends = 0
    /\ turns = 0
    /\ pre_turn = None
    /\ last_outcome = "none"
    /\ last_http = None
    /\ last_response = None
    /\ replies = <<>>
    /\ sum_input_tokens = Wide(0, 0)
    /\ sum_output_tokens = Wide(0, 0)
    /\ concluded = <<>>

\* ------------------------------------------------------------- entry point
\* every outcome reported as success
ExitStatus_AlwaysZero(ok) == 0

\* the process status main's Result becomes: 0 for Ok(()), 1 for Err
ExitStatus(ok) == IF ok THEN 0 ELSE 1

\* main: ClaudeProvider::new(config).await? -- the key file is read and the
\* HTTP client built; either can fail, and `?` ends the process with status 1.
Construct ==
    /\ pc = "Start"
    /\ \E key_file \in KeyFiles, client_builds \in BOOLEAN :
         LET result == ProviderNew(key_file, client_builds) IN
           /\ construction' = Some([key_file |-> key_file, client_builds |-> client_builds])
           /\ IF result.ok
              THEN /\ provider' = Some(result.value)
                   /\ pc' = "Dispatch"
                   /\ UNCHANGED <<exit_code, errors_reported, stderr>>
              ELSE /\ pc' = "Exited"
                   /\ exit_code' = Some(ExitStatus(FALSE))
                   /\ errors_reported' = errors_reported + 1
                   /\ stderr' = Some(result.error)
                   /\ UNCHANGED provider
    /\ UNCHANGED <<args, overflow_checks, driver, read, request, turn_total_cost,
                   session_total_cost, accounting_lines, replies_printed, summaries,
                   summary, invocations, http_sends, history>>
    /\ UNCHANGED sums

\* the one-shot request built without its message
SingleTurnRequest_NoMessage(message) == LLMRequest(SystemPrompt, <<>>)

\* LLMRequest { system_prompt, messages: vec![Message { role: "user", content: message }] }
SingleTurnRequest(message) == LLMRequest(SystemPrompt, <<Message(USER, message)>>)

\* main's dispatch: which mode the parsed flags select
RunsInteractive(a) == a.interactive \/ ~a.message.some

\* main: the if / else if / else over args, up to the first suspension point
Dispatch ==
    /\ pc = "Dispatch"
    /\ IF RunsInteractive(args)
       THEN /\ pc' = "Idle"
            /\ UNCHANGED <<request, invocations>>
       ELSE /\ pc' = "SingleInFlight"
            /\ request' = Some(SingleTurnRequest(args.message.value))
            /\ invocations' = invocations + 1
    /\ UNCHANGED <<args, overflow_checks, exit_code, backend, driver, read, output,
                   http_sends, history>>
    /\ UNCHANGED sums

\* main: single-turn mode, the invocation returns
SingleTurnComplete ==
    /\ pc = "SingleInFlight"
    /\ \E http \in HttpOutcomes :
         LET result == invoke(provider.value, request.value, http) IN
           /\ http_sends' = http_sends + 1
           /\ last_http' = Some(http)
           /\ IF result.ok
              THEN /\ replies_printed' = replies_printed + 1
                   /\ UNCHANGED <<errors_reported, stderr>>
              ELSE /\ errors_reported' = errors_reported + 1
                   /\ stderr' = Some(result.error)
                   /\ UNCHANGED replies_printed
    /\ pc' = "Exited"
    /\ exit_code' = Some(ExitStatus(TRUE))
    /\ UNCHANGED <<args, overflow_checks, backend, driver, read, request,
                   turn_total_cost, session_total_cost, accounting_lines, summaries,
                   summary, invocations, turns, pre_turn, last_outcome, last_response,
                   replies, concluded>>
    /\ UNCHANGED sums

\* ------------------------------------------------------ conversation driver
\* the transcript restarted at every user message
PushUser_Restart(msgs, text) == <<Message(USER, text)>>

\* messages.push(Message { role: "user", content: input.to_string() })
PushUser(msgs, text) == Append(msgs, Message(USER, text))

\* the reply pushed under the user role
PushAssistant_AsUser(msgs, content) == Append(msgs, Message(USER, content))

\* the reply's content lost before the push
PushAssistant_DropsContent(msgs, content) == Append(msgs, Message(ASSISTANT, <<>>))

\* messages.push(Message { role: "assistant", content: response.content })
PushAssistant(msgs, content) == Append(msgs, Message(ASSISTANT, content))

\* the Err arm without the pop
RevertTurn_NoPop(msgs) == msgs

\* messages.pop() of the Err arm
RevertTurn(msgs) == IF msgs = <<>> THEN msgs ELSE SubSeq(msgs, 1, Len(msgs) - 1)

\* total += n where the addition does not panic
AddAssign32(total, n) == WrappingAdd32(total, n)

input_cost_per_m == 3

output_cost_per_m == 15

\* turn_total_cost, in micro-dollars
TurnTotalCost(response) ==
    WideAdd(WideScale(input_cost_per_m, response.input_tokens),
            WideScale(output_cost_per_m, response.output_tokens))

\* the two unit prices exchanged
SessionTotalCost_SwappedPrices(total_in, total_out) ==
    WideAdd(WideScale(output_cost_per_m, total_in),
            WideScale(input_cost_per_m, total_out))

\* session_total_cost, in micro-dollars, from the totals it is handed
SessionTotalCost(total_in, total_out) ==
    WideAdd(WideScale(input_cost_per_m, total_in),
            WideScale(output_cost_per_m, total_out))

\* the two totals printed in each other's place
SummaryTotals_Swapped(total_in, total_out) == <<total_out, total_in>>

\* the two totals the session summary prints
SummaryTotals(total_in, total_out) == <<total_in, total_out>>

\* the request built from the bare latest message
BuildRequest_LastOnly(msgs) ==
    LLMRequest(SystemPrompt, IF msgs = <<>> THEN msgs ELSE <<msgs[Len(msgs)]>>)

\* LLMRequest { system_prompt: system_prompt.clone(), messages: messages.clone() }
BuildRequest(msgs) == LLMRequest(SystemPrompt, msgs)

\* The part of an iteration from the prompt to the branch on `input`:
\* the value `input` holds after read_line and trim.
TrimmedInput(r) == IF r.kind = "line" THEN Trim(r.text) ELSE <<>>

\* the loop's `input` after trimming
input == TrimmedInput(read)

\* the report of a failed read_line: the context and the I/O error under it
ReadErrorText == <<Lit("Failed to read user input"), Lit("Input/output error (os error 5)")>>

\* read_line fails: `?` returns the error from interactive_mode and main
ReadError ==
    /\ pc = "Idle"
    /\ \E r \in ReadResults : r.kind = "error"
    /\ pc' = "Exited"
    /\ exit_code' = Some(ExitStatus(FALSE))
    /\ errors_reported' = errors_reported + 1
    /\ read' = [kind |-> "error"]
    /\ stderr' = Some(ReadErrorText)
    /\ UNCHANGED <<args, overflow_checks, backend, driver, request, turn_total_cost,
                   session_total_cost, accounting_lines, replies_printed, summaries,
                   summary, invocations, http_sends, history>>
    /\ UNCHANGED sums

\* if input.is_empty() { continue; } -- an empty or blank line, or end of input
ReadEmpty ==
    /\ pc = "Idle"
    /\ \E r \in ReadResults :
         /\ r.kind # "error"
         /\ IsEmpty(TrimmedInput(r))
         /\ read' = r
    /\ UNCHANGED <<args, overflow_checks, pc, exit_code, backend, driver, request,
                   output, invocations, http_sends, history>>
    /\ UNCHANGED sums

\* if exit or quit { break; } and the summary after the loop; main returns Ok
ReadControlCommand ==
    /\ pc = "Idle"
    /\ \E r \in ReadResults :
         /\ r.kind # "error"
         /\ ~IsEmpty(TrimmedInput(r))
         /\ IsControlCommand(TrimmedInput(r))
         /\ read' = r
    /\ summaries' = summaries + 1
    /\ summary' = Some(SummaryTotals(total_input_tokens, total_output_tokens))
    /\ pc' = "Terminated"
    /\ exit_code' = Some(ExitStatus(TRUE))
    /\ UNCHANGED <<args, overflow_checks, backend, driver, request, turn_total_cost,
                   session_total_cost, accounting_lines, replies_printed,
                   errors_reported, stderr, invocations, http_sends, history>>
    /\ UNCHANGED sums

\* any other input: push the user message, build the request, call invoke
ReadMessage ==
    /\ pc = "Idle"
    /\ turns < MaxTurns
    /\ \E r \in ReadResults :
         /\ r.kind # "error"
         /\ ~IsEmpty(TrimmedInput(r))
         /\ ~IsControlCommand(TrimmedInput(r))
         /\ read' = r
         /\ messages' = PushUser(messages, TrimmedInput(r))
         /\ request' = Some(BuildRequest(PushUser(messages, TrimmedInput(r))))
    /\ pc' = "InFlight"
    /\ invocations' = invocations + 1
    /\ turns' = turns + 1
    /\ pre_turn' = Some([messages |-> messages,
                         total_input_tokens |-> total_input_tokens,
                         total_output_tokens |-> total_output_tokens,
                         accounting_lines |-> accounting_lines])
    /\ UNCHANGED <<args, overflow_checks, exit_code, backend, total_input_tokens,
                   total_output_tokens, output, http_sends, last_outcome,
                   last_http, last_response, replies, concluded>>
    /\ UNCHANGED sums

\* Ok(response) arm: print, push the assistant message, update the totals,
\* print the accounting line.  An overflowing += panics when the build checks
\* overflow and wraps when it does not.
InvokeOk ==
    /\ pc = "InFlight"
    /\ \E http \in HttpOutcomes :
         LET result == invoke(provider.value, request.value, http) IN
           /\ result.ok
           /\ LET response == result.value
                  in_panics == overflow_checks
                                 /\ Overflows32(total_input_tokens, response.input_tokens)
                  out_panics == overflow_checks
                                 /\ Overflows32(total_output_tokens, response.output_tokens)
                  new_in == AddAssign32(total_input_tokens, response.input_tokens)
                  new_out == AddAssign32(total_output_tokens, response.output_tokens)
              IN
                /\ replies_printed' = replies_printed + 1
                /\ messages' = PushAssistant(messages, response.content)
                /\ concluded' = PushAssistant(messages, response.content)
                /\ last_http' = Some(http)
                /\ last_response' = Some(response)
                /\ replies' = Append(replies, response.content)
                /\ sum_input_tokens' = WideAdd(sum_input_tokens, response.input_tokens)
                /\ sum_output_tokens' = WideAdd(sum_output_tokens, response.output_tokens)
                /\ IF in_panics \/ out_panics
                   THEN /\ total_input_tokens' =
                             IF in_panics THEN total_input_tokens ELSE new_in
                        /\ UNCHANGED <<total_output_tokens, turn_total_cost,
                                       session_total_cost, accounting_lines>>
                        /\ pc' = "Panicked"
                        /\ exit_code' = Some(101)
                        /\ last_outcome' = "panicked"
                   ELSE /\ total_input_tokens' = new_in
                        /\ total_output_tokens' = new_out
                        /\ turn_total_cost' = TurnTotalCost(response)
                        /\ session_total_cost' = SessionTotalCost(new_in, new_out)
                        /\ accounting_lines' = accounting_lines + 1
                        /\ pc' = "Idle"
                        /\ last_outcome' = "ok"
                        /\ UNCHANGED exit_code
    /\ http_sends' = http_sends + 1
    /\ UNCHANGED <<args, overflow_checks, backend, read, request, summaries, summary,
                   errors_reported, stderr, invocations, turns, pre_turn>>

\* Err(e) arm: report the error and pop the user message
InvokeErr ==
    /\ pc = "InFlight"
    /\ \E http \in HttpOutcomes :
         /\ ~invoke(provider.value, request.value, http).ok
         /\ last_http' = Some(http)
         /\ stderr' = Some(invoke(provider.value, request.value, http).error)
    /\ errors_reported' = errors_reported + 1
    /\ messages' = RevertTurn(messages)
    /\ concluded' = RevertTurn(messages)
    /\ pc' = "Idle"
    /\ last_outcome' = "failed"
    /\ http_sends' = http_sends + 1
    /\ UNCHANGED <<args, overflow_checks, exit_code, backend, total_input_tokens,
                   total_output_tokens, read, request, turn_total_cost,
                   session_total_cost, accounting_lines, replies_printed, summaries,
                   summary, invocations, turns, pre_turn, last_response, replies>>
    /\ UNCHANGED sums

Next ==
    \/ Construct
    \/ Dispatch
    \/ SingleTurnComplete
    \/ ReadError
    \/ ReadEmpty
    \/ ReadControlCommand
    \/ ReadMessage
    \/ InvokeOk
    \/ InvokeErr

Spec == Init /\ [][Next]_vars

\* =================================================================== claims
Roles(msgs) == [k \in 1..Len(msgs) |-> msgs[k].role]

IsAssistant(m) == m.role = ASSISTANT

AssistantContents(msgs) ==
    LET a == SelectSeq(msgs, IsAssistant) IN [k \in 1..Len(a) |-> a[k].content]

\* a turn has concluded and the driver is back in the loop, or has left it
TurnConcluded == pc \in {"Idle", "Terminated"}

\* C1 -- failure atomicity: once the driver is back at Idle after a failed
\* invocation, the transcript and both token totals are what they were
\* immediately before the turn's user message was appended.
C1_FailureAtomicity ==
    (pc = "Idle" /\ last_outcome = "failed") =>
        /\ messages = pre_turn.value.messages
        /\ total_input_tokens = pre_turn.value.total_input_tokens
        /\ total_output_tokens = pre_turn.value.total_output_tokens

\* a failed turn that followed a successful one
C1_Witness ==
    /\ pc = "Idle"
    /\ last_outcome = "failed"
    /\ Len(messages) = 2
    /\ total_input_tokens # Zero32

\* C2 -- transcript well-formedness: whenever a turn has concluded, roles
\* alternate strictly starting with "user" and the last entry is assistant.
C2_TranscriptWellFormed ==
    TurnConcluded =>
        /\ \A k \in 1..Len(messages) :
             messages[k].role = IF k % 2 = 1 THEN USER ELSE ASSISTANT
        /\ Len(messages) % 2 = 0

\* the session ended after one failed and one successful turn
C2_Witness ==
    /\ pc = "Terminated"
    /\ errors_reported = 1
    /\ Roles(messages) = <<USER, ASSISTANT>>

\* C3 -- monotonicity: neither token total ever decreases from one state to
\* the next.
C3_TotalsNeverDecrease ==
    [][/\ Leq32(total_input_tokens, total_input_tokens')
       /\ Leq32(total_output_tokens, total_output_tokens')]_vars

\* C4 -- entry-point dispatch: with --message present the program runs
\* single-turn mode and never the interactive loop; only without it does the
\* interactive loop run.
InteractiveStates == {"Idle", "InFlight", "Terminated", "Panicked"}

C4_DispatchOnMessage ==
    /\ args.message.some => pc \notin InteractiveStates
    /\ ~args.message.some => pc # "SingleInFlight"
    /\ (pc = "SingleInFlight") =>
          /\ invocations = 1
          /\ request.value.messages = <<Message(USER, args.message.value)>>

\* C5 -- control commands: reading a line whose trimmed text is exit or quit
\* in any ASCII letter case takes the driver from Idle to Terminated with no
\* backend request and no change to the transcript or the totals.
LetterCases(c) ==
    UNION { {UpperLetters[k], LowerLetters[k]} : k \in {j \in 1..26 : LowerLetters[j] = c} }

\* the sixteen spellings of a four-letter lower-case word
CaseVariants(word) ==
    { <<a, b, c, d>> : a \in LetterCases(word[1]), b \in LetterCases(word[2]),
                       c \in LetterCases(word[3]), d \in LetterCases(word[4]) }

ControlWords == CaseVariants(<<"e", "x", "i", "t">>) \cup CaseVariants(<<"q", "u", "i", "t">>)

\* what remains of text once a whitespace prefix and a whitespace suffix are
\* cut so that neither end is whitespace any more
Trimmings(text) ==
    { SubSeq(text, a + 1, Len(text) - b) :
        <<a, b>> \in { ab \in (0..Len(text)) \X (0..Len(text)) :
                         /\ ab[1] + ab[2] <= Len(text)
                         /\ \A k \in 1..ab[1] : text[k] \in Whitespace
                         /\ \A k \in (Len(text) - ab[2] + 1)..Len(text) :
                              text[k] \in Whitespace
                         /\ ab[1] + ab[2] < Len(text) =>
                              /\ text[ab[1] + 1] \notin Whitespace
                              /\ text[Len(text) - ab[2]] \notin Whitespace } }

ReadsControlLine ==
    /\ pc = "Idle"
    /\ read'.kind = "line"
    /\ Trimmings(read'.text) \cap ControlWords # {}

C5_ControlCommands ==
    [][ReadsControlLine =>
         /\ pc' = "Terminated"
         /\ UNCHANGED <<messages, total_input_tokens, total_output_tokens,
                        invocations, http_sends, request>>]_vars

\* the session ended on a padded, mixed-case exit after a successful turn
C5_Witness ==
    /\ pc = "Terminated"
    /\ read = [kind |-> "line", text |-> <<" ", "E", "x", "I", "T", " ", "\r", "\n">>]
    /\ Len(messages) = 2
    /\ invocations = 1

\* C6 -- empty input: reading a line that is empty or whitespace-only issues
\* no backend request, changes neither transcript nor totals, and leaves the
\* driver in Idle.
ReadsBlankLine ==
    /\ pc = "Idle"
    /\ read'.kind = "line"
    /\ \A k \in 1..Len(read'.text) : read'.text[k] \in Whitespace

C6_EmptyInput ==
    [][ReadsBlankLine =>
         /\ pc' = "Idle"
         /\ UNCHANGED <<messages, total_input_tokens, total_output_tokens,
                        invocations, http_sends, request>>]_vars

\* a whitespace-only line was read after a successful turn
C6_Witness ==
    /\ pc = "Idle"
    /\ read = [kind |-> "line", text |-> <<" ", "\t", "\n">>]
    /\ Len(messages) = 2

\* C7 -- accounting identity: the session cost of the accounting line is
\* 3 * total_input_tokens + 15 * total_output_tokens micro-dollars of the
\* totals as updated by that turn, and the turn cost is the same formula on
\* the turn's response counts.
MicroDollars(in_tokens, out_tokens) ==
    LET low == 3 * in_tokens[2] + 15 * out_tokens[2] IN
      <<3 * in_tokens[1] + 15 * out_tokens[1] + (low \div Half), low % Half>>

C7_AccountingIdentity ==
    (accounting_lines > 0 /\ pc # "Panicked") =>
        /\ session_total_cost = MicroDollars(total_input_tokens, total_output_tokens)
        /\ turn_total_cost = MicroDollars(last_response.value.input_tokens,
                                          last_response.value.output_tokens)

\* two accounting lines, the session cost differing from the turn cost
C7_Witness ==
    /\ pc = "Idle"
    /\ last_outcome = "ok"
    /\ accounting_lines = 2
    /\ session_total_cost # turn_total_cost
    /\ total_input_tokens = U32(0, 20)

\* C8 -- every message of the transcript has a role in {"user", "assistant"}
\* and a non-empty content string.
C8_AllContentNonEmpty ==
    \A k \in 1..Len(messages) :
        /\ messages[k].role \in {USER, ASSISTANT}
        /\ messages[k].content # <<>>

\* C8 as amended -- every message has a role in {"user", "assistant"}, every
\* user message has non-empty content, and an assistant message's content is
\* the reply of a successful invocation, which may be the empty string.
C8_RolesAndUserContent ==
    /\ \A k \in 1..Len(messages) :
         /\ messages[k].role \in {USER, ASSISTANT}
         /\ messages[k].role = USER => messages[k].content # <<>>
    /\ AssistantContents(messages) = replies

\* a transcript holding a user message and an assistant message with empty content
C8_Witness ==
    /\ Len(messages) >= 2
    /\ messages[1].role = USER
    /\ messages[2] = Message(ASSISTANT, <<>>)

\* C9 -- empty content block: a 2xx response with an empty content array and
\* populated usage is a success with the empty string as reply; the driver
\* appends an assistant message with empty content, adds the response's
\* counts to the totals (u32 addition) and prints the accounting line.
EmptyContentResponse ==
    /\ last_http.some
    /\ last_http.value.kind = "status"
    /\ last_http.value.success
    /\ last_http.value.parses
    /\ last_http.value.content = <<>>

C9_EmptyContentBlock ==
    /\ (EmptyContentResponse /\ pc \in {"Idle", "Panicked"}) =>
          /\ last_outcome # "failed"
          /\ Len(messages) = Len(pre_turn.value.messages) + 2
          /\ SubSeq(messages, 1, Len(messages) - 2) = pre_turn.value.messages
          /\ messages[Len(messages) - 1].role = USER
          /\ messages[Len(messages)] = Message(ASSISTANT, <<>>)
          /\ replies # <<>>
          /\ replies[Len(replies)] = <<>>
    /\ (EmptyContentResponse /\ pc = "Idle") =>
          /\ last_outcome = "ok"
          /\ total_input_tokens =
                WrappingAdd32(pre_turn.value.total_input_tokens,
                              last_http.value.usage.input_tokens)
          /\ total_output_tokens =
                WrappingAdd32(pre_turn.value.total_output_tokens,
                              last_http.value.usage.output_tokens)
          /\ accounting_lines = pre_turn.value.accounting_lines + 1
          /\ turn_total_cost = MicroDollars(last_http.value.usage.input_tokens,
                                            last_http.value.usage.output_tokens)

\* an empty content array answered the second turn, and the turn concluded
C9_Witness ==
    /\ EmptyContentResponse
    /\ pc = "Idle"
    /\ Len(messages) = 4
    /\ messages[4] = Message(ASSISTANT, <<>>)
    /\ accounting_lines = 2

\* C10 -- the assistant entries of the transcript, in order, are exactly the
\* reply contents of the successful invocations so far, in completion order;
\* a failed or unfinished turn has no assistant entry.
C10_AssistantMirror ==
    /\ AssistantContents(messages) = replies
    /\ pc = "InFlight" =>
          /\ messages[Len(messages)].role = USER
          /\ AssistantContents(messages) = AssistantContents(pre_turn.value.messages)
    /\ (pc = "Idle" /\ last_outcome = "failed") =>
          AssistantContents(messages) = AssistantContents(pre_turn.value.messages)

\* a successful reply, then a failed turn
C10_Witness ==
    /\ pc = "Idle"
    /\ last_outcome = "failed"
    /\ replies = << <<"O", "k">> >>
    /\ Len(messages) = 2

\* C11 -- turn ordering: the request of a turn carries exactly the transcript
\* as the previous turn's conclusion left it (empty before the first turn)
\* followed by the turn's one new user message, and once built the request is
\* not altered by what the driver later does to the transcript.
C11_RequestIsSnapshot ==
    /\ pc = "InFlight" =>
          /\ Len(request.value.messages) = Len(concluded) + 1
          /\ SubSeq(request.value.messages, 1, Len(concluded)) = concluded
          /\ request.value.messages[Len(concluded) + 1].role = USER
          /\ request.value.messages[Len(concluded) + 1].content # <<>>
          /\ request.value.system_prompt = SystemPrompt
    /\ (pc = "Idle" /\ turns > 0) =>
          /\ request.value.messages # messages
          /\ SubSeq(request.value.messages, 1, Len(request.value.messages) - 1)
                = pre_turn.value.messages

\* the second turn's request is in flight after a successful first turn
C11_Witness ==
    /\ pc = "InFlight"
    /\ turns = 2
    /\ Len(concluded) = 2
    /\ Len(request.value.messages) = 3

\* C12 -- session summary on exit: when the loop ends through exit or quit a
\* session summary has been printed exactly once, no turn follows it, and it
\* shows the running totals of that moment -- (0, 0) when no turn succeeded;
\* no summary is printed any other way.
C12_SessionSummary ==
    /\ pc = "Terminated" =>
          /\ summaries = 1
          /\ summary = Some(<<total_input_tokens, total_output_tokens>>)
          /\ replies = <<>> => summary = Some(<<Zero32, Zero32>>)
          /\ invocations = http_sends
          /\ exit_code = Some(0)
    /\ pc # "Terminated" => (summaries = 0 /\ summary = None)

\* the session ended after a successful turn whose two counts differ
C12_Witness ==
    /\ pc = "Terminated"
    /\ summaries = 1
    /\ summary = Some(<<U32(0, 10), Max32>>)

\* the session ended before any turn: the summary shows (0, 0)
C12_WitnessNoTurn ==
    /\ pc = "Terminated"
    /\ turns = 0
    /\ summary = Some(<<Zero32, Zero32>>)

\* C13 -- single-turn mode: the backend is invoked exactly once, with a
\* transcript of exactly the one user message; the reply is printed on
\* success and the error on failure; either way the process then exits with
\* status 0, and no accounting line and no session summary is printed.
SingleTurnRuns == request # None /\ turns = 0

HttpSucceeded(http) == http.kind = "status" /\ http.success /\ http.parses

C13_SingleTurnMode ==
    SingleTurnRuns =>
        /\ pc \in {"SingleInFlight", "Exited"}
        /\ request.value.messages = <<[role |-> "user", content |-> args.message.value]>>
        /\ invocations = 1
        /\ accounting_lines = 0
        /\ summaries = 0
        /\ messages = <<>>
        /\ read.kind = "none"
        /\ pc = "SingleInFlight" =>
              (http_sends = 0 /\ exit_code = None /\ replies_printed = 0)
        /\ pc = "Exited" =>
              /\ http_sends = 1
              /\ exit_code = Some(0)
              /\ IF HttpSucceeded(last_http.value)
                 THEN replies_printed = 1 /\ errors_reported = 0
                 ELSE replies_printed = 0 /\ errors_reported = 1

\* single-turn mode ended on a failed invocation, with status 0
C13_Witness ==
    /\ SingleTurnRuns
    /\ pc = "Exited"
    /\ errors_reported = 1
    /\ exit_code = Some(0)

\* single-turn mode ended on a reply
C13_WitnessReply ==
    /\ SingleTurnRuns
    /\ pc = "Exited"
    /\ replies_printed = 1

\* C14 -- startup-fatal construction failure: when the key file cannot be
\* read or the HTTP client cannot be built, the program reports the error
\* and exits with a non-zero status; it enters neither mode and issues no
\* backend request.
ConstructionFailed ==
    /\ construction # None
    /\ ~construction.value.key_file.readable \/ ~construction.value.client_builds

C14_ConstructionFailureIsFatal ==
    ConstructionFailed =>
        /\ pc = "Exited"
        /\ exit_code # None
        /\ exit_code.value # 0
        /\ errors_reported = 1
        /\ stderr # None
        /\ provider = None
        /\ request = None
        /\ invocations = 0
        /\ http_sends = 0
        /\ read.kind = "none"
        /\ messages = <<>>
        /\ summaries = 0

\* the key file could not be read
C14_Witness ==
    /\ construction # None
    /\ ~construction.value.key_file.readable
    /\ construction.value.client_builds
    /\ pc = "Exited"

\* C15 -- no retries, failures are recoverable per turn: every turn issues
\* one backend invocation and every invocation sends at most one HTTP
\* request; a transport error, a non-2xx status and a malformed 2xx body each
\* fail the invocation, after which the turn is reverted and the driver is
\* back at Idle, not terminated.
InvocationPending == pc \in {"InFlight", "SingleInFlight"}

OneRequestPerTurn ==
    /\ pc \in InteractiveStates => invocations = turns
    /\ http_sends = invocations - (IF InvocationPending THEN 1 ELSE 0)

FailedExchangeReturns ==
    /\ pc = "InFlight"
    /\ last_http' # None
    /\ ~HttpSucceeded(last_http'.value)
    /\ http_sends' # http_sends

C15_NoRetries ==
    /\ []OneRequestPerTurn
    /\ [][FailedExchangeReturns =>
            /\ pc' = "Idle"
            /\ exit_code' = None
            /\ messages' = pre_turn.value.messages
            /\ UNCHANGED <<total_input_tokens, total_output_tokens, invocations, turns>>
            /\ http_sends' = http_sends + 1
            /\ errors_reported' = errors_reported + 1
            /\ last_outcome' = "failed"]_vars

\* a malformed 2xx body failed the second turn and the driver is at Idle
C15_Witness ==
    /\ pc = "Idle"
    /\ last_outcome = "failed"
    /\ last_http = Some([kind |-> "status", success |-> TRUE, parses |-> FALSE])
    /\ turns = 2
    /\ http_sends = 2
    /\ Len(messages) = 2

\* C16 -- input I/O failure is fatal: when read_line fails at Idle the session
\* ends with an error and a non-zero process status; that iteration issues
\* no backend request and the loop does not go on.
ReadFails == pc = "Idle" /\ read'.kind = "error"

C16_ReadFailureIsFatal ==
    /\ [](read.kind = "error" => (pc = "Exited" /\ ~ENABLED Next))
    /\ [][ReadFails =>
            /\ pc' = "Exited"
            /\ exit_code' # None
            /\ exit_code'.value # 0
            /\ errors_reported' = errors_reported + 1
            /\ stderr' # stderr
            /\ UNCHANGED <<messages, total_input_tokens, total_output_tokens,
                           invocations, http_sends, request, summaries>>]_vars

\* a read failed after a successful turn
C16_Witness ==
    /\ read.kind = "error"
    /\ pc = "Exited"
    /\ exit_code = Some(1)
    /\ Len(messages) = 2
    /\ invocations = 1

\* C17 -- secret confidentiality: what the program writes for the user is
\* determined by the inputs and the backend's responses alone, so two runs
\* that differ only in the API secret print the same; no error text carries
\* the secret.  Every error text is the text fixed by the failed key-file
\* read or client build, the failed read or the failed HTTP exchange, and
\* replies, accounting lines and the summary come from responses and totals.
ReportedErrorText ==
    IF ConstructionFailed'
    THEN IF ~construction'.value.key_file.readable
         THEN <<Lit("Failed to read API key from "), Lit("$HOME/.api/anthropic1"),
                Lit(construction'.value.key_file.io_error)>>
         ELSE <<Lit("builder error")>>
    ELSE IF read'.kind = "error"
    THEN <<Lit("Failed to read user input"), Lit("Input/output error (os error 5)")>>
    ELSE IF last_http'.value.kind = "transport_error"
    THEN <<Lit("Failed to send request to Claude API")>>
    ELSE IF ~last_http'.value.success
    THEN <<Lit("API request failed with status "), Lit(last_http'.value.status), Lit(": "),
           Lit(IF last_http'.value.body_readable THEN last_http'.value.body
                                                 ELSE "Unknown error")>>
    ELSE <<Lit("Failed to parse non-streaming response")>>

SecretAbsent ==
    (stderr # None /\ construction # None /\ construction.value.key_file.readable) =>
        \A k \in 1..Len(stderr.value) :
            /\ stderr.value[k].chars # Trim(construction.value.key_file.content)
            /\ stderr.value[k].chars # construction.value.key_file.content

C17_SecretConfidentiality ==
    /\ []SecretAbsent
    /\ []((provider # None) =>
             provider.value.api_key = Trim(construction.value.key_file.content))
    /\ [][errors_reported' # errors_reported => stderr' = Some(ReportedErrorText)]_vars
    /\ [][replies_printed' # replies_printed =>
            HttpSucceeded(last_http'.value)]_vars
    /\ [][accounting_lines' # accounting_lines =>
            /\ turn_total_cost' = MicroDollars(last_http'.value.usage.input_tokens,
                                               last_http'.value.usage.output_tokens)
            /\ session_total_cost' = MicroDollars(total_input_tokens', total_output_tokens')]_vars

\* with the key sk-B loaded, a failed exchange reported status and body
C17_Witness ==
    /\ provider = Some([api_key |-> <<"s", "k", "-", "B">>])
    /\ pc = "Idle"
    /\ last_outcome = "failed"
    /\ stderr # None
    /\ Len(stderr.value) = 4
    /\ stderr.value[4] = Lit("overloaded")

\* C18 -- driver state machine.  The transitions, each with its effect:
TotalsUnchanged == UNCHANGED <<total_input_tokens, total_output_tokens>>

\* Idle -> Idle on a line that is empty after trimming (or at end of input)
IdleToIdle ==
    /\ pc = "Idle" /\ pc' = "Idle"
    /\ \/ read'.kind = "eof"
       \/ read'.kind = "line" /\ Trimmings(read'.text) = {<<>>}
    /\ UNCHANGED <<messages, invocations, http_sends>>
    /\ TotalsUnchanged

\* Idle -> Terminated on exit or quit
IdleToTerminated ==
    /\ pc = "Idle" /\ pc' = "Terminated"
    /\ read'.kind = "line"
    /\ Trimmings(read'.text) \cap ControlWords # {}
    /\ UNCHANGED <<messages, invocations, http_sends>>
    /\ TotalsUnchanged

\* Idle -> InFlight on any other input, after appending the user message
IdleToInFlight ==
    /\ pc = "Idle" /\ pc' = "InFlight"
    /\ read'.kind = "line"
    /\ \E m \in Trimmings(read'.text) \ (ControlWords \cup {<<>>}) :
          messages' = messages \o <<[role |-> "user", content |-> m]>>
    /\ invocations' = invocations + 1
    /\ http_sends' = http_sends
    /\ TotalsUnchanged

\* InFlight -> Idle on success, after appending the assistant message and
\* updating the totals
InFlightToIdleOnSuccess ==
    /\ pc = "InFlight" /\ pc' = "Idle"
    /\ HttpSucceeded(last_http'.value)
    /\ Len(messages') = Len(messages) + 1
    /\ SubSeq(messages', 1, Len(messages)) = messages
    /\ messages'[Len(messages')].role = "assistant"
    /\ total_input_tokens' =
          WrappingAdd32(total_input_tokens, last_http'.value.usage.input_tokens)
    /\ total_output_tokens' =
          WrappingAdd32(total_output_tokens, last_http'.value.usage.output_tokens)
    /\ invocations' = invocations
    /\ http_sends' = http_sends + 1

\* InFlight -> Idle on failure, after reverting the append
InFlightToIdleOnFailure ==
    /\ pc = "InFlight" /\ pc' = "Idle"
    /\ ~HttpSucceeded(last_http'.value)
    /\ messages' = pre_turn.value.messages
    /\ invocations' = invocations
    /\ http_sends' = http_sends + 1
    /\ TotalsUnchanged

\* Idle -> exit with an error when the read fails
IdleToExitedOnReadError ==
    /\ pc = "Idle" /\ pc' = "Exited"
    /\ read'.kind = "error"
    /\ exit_code' = Some(1)
    /\ UNCHANGED <<messages, invocations, http_sends>>
    /\ TotalsUnchanged

\* InFlight -> abort when adding a successful response's counts overflows a
\* total and the build checks overflow
InFlightToPanicked ==
    /\ pc = "InFlight" /\ pc' = "Panicked"
    /\ overflow_checks
    /\ HttpSucceeded(last_http'.value)
    /\ \/ Overflows32(total_input_tokens, last_http'.value.usage.input_tokens)
       \/ Overflows32(total_output_tokens, last_http'.value.usage.output_tokens)
    /\ invocations' = invocations
    /\ http_sends' = http_sends + 1

\* one invocation at a time, nothing read and nothing mutated while in flight,
\* exit and quit honoured at Idle only
DriverIsSerial ==
    /\ invocations - http_sends \in {0, 1}
    /\ invocations - http_sends = 1 <=> InvocationPending
    /\ pc = "InFlight" =>
          /\ messages = request.value.messages
          /\ total_input_tokens = pre_turn.value.total_input_tokens
          /\ total_output_tokens = pre_turn.value.total_output_tokens

InputReadAtIdleOnly == read' # read => pc = "Idle"

\* the five transitions of the driver's state machine
FiveTransitions ==
    \/ IdleToIdle
    \/ IdleToTerminated
    \/ IdleToInFlight
    \/ InFlightToIdleOnSuccess
    \/ InFlightToIdleOnFailure

\* C18 -- the driver's only transitions are the five of the state machine
\* (Idle->Idle, Idle->Terminated, Idle->InFlight, InFlight->Idle on success
\* and on failure); one invocation is in flight at a time, and nothing is
\* read or mutated while it is.
C18_OnlyFiveTransitions ==
    /\ []DriverIsSerial
    /\ [][InputReadAtIdleOnly]_vars
    /\ [][(pc \in InteractiveStates) => FiveTransitions]_vars

\* C18 as amended -- the five transitions, and two more that leave the loop:
\* Idle -> exit with an error when the read fails, and InFlight -> abort
\* when a total overflows in a build that checks overflow.
C18_DriverTransitions ==
    /\ []DriverIsSerial
    /\ [][InputReadAtIdleOnly]_vars
    /\ [][(pc \in InteractiveStates) =>
            (FiveTransitions \/ IdleToExitedOnReadError \/ InFlightToPanicked)]_vars

\* the driver went through both turns and the read then failed
C18_Witness ==
    /\ pc = "Exited"
    /\ read.kind = "error"
    /\ turns = 2
    /\ Len(messages) = 2
    /\ errors_reported = 2

\* C19 -- exact totals: each total equals the arithmetic sum of the counts of
\* the successful responses so far; the running sums never overflow or wrap.
C19_ExactTotals ==
    pc \in InteractiveStates =>
        /\ total_input_tokens = sum_input_tokens
        /\ total_output_tokens = sum_output_tokens

\* C20 -- session termination: a read that finds the input exhausted (zero
\* bytes, no error) ends the session; the loop does not stay in Idle to read
\* the exhausted input again.
C20_EndOfInputTerminates ==
    [][(pc = "Idle" /\ read'.kind = "eof") => pc' = "Terminated"]_vars

====
